---- MODULE Spec2Model ----
(***************************************************************************)
(* Model of the GitHub PR triaging agent (src/main.py): the webhook        *)
(* endpoint, the direct-analyze endpoint, the three diff fetchers, the     *)
(* two-pass classifier and the Slack notifier.                             *)
(*                                                                         *)
(* One request is handled at a time, start to finish (Flask handlers are   *)
(* synchronous and share only read-only configuration).  Every call that   *)
(* leaves the process (an HTTP GET, a model call, a Slack post) is one     *)
(* action whose outcome is chosen by the environment; the Python code      *)
(* that runs between two such calls is part of the action.                 *)
(*                                                                         *)
(* Texts that the code only tests for emptiness or passes on are TLA+      *)
(* strings.  Texts that the code transforms character by character (the    *)
(* classification word) are tuples of one-character strings.               *)
(***************************************************************************)
EXTENDS Integers, Sequences, FiniteSets, TLC

\* ---------------------------------------------------------------- bounds
\* Number of requests served one after the other in one behaviour.
MaxRequests == 2
\* Value read from time.time() (seconds); header values are taken around it.
Clock == 1000

\* ------------------------------------------------------ program constants
\* for attempt in range(3)
MaxAttempts == 3
\* wait_time = min(reset_time - current_time + 1, 60)
MaxWait == 60

\* Python's None where a string is expected.
None == "None"
\* Python's None where a text of characters is expected.
NoneText == <<"None">>

\* ------------------------------------------------------------- verdicts
CRITICAL == <<"C", "R", "I", "T", "I", "C", "A", "L">>
NEEDS_REVIEW == <<"N", "E", "E", "D", "S", "_", "R", "E", "V", "I", "E", "W">>
GOOD == <<"G", "O", "O", "D">>

\* the list ['CRITICAL', 'NEEDS_REVIEW', 'GOOD'] of analyze_with_ai
Canonical == {CRITICAL, NEEDS_REVIEW, GOOD}

CHANNEL_MAPPING ==
    [v \in Canonical |->
        IF v = CRITICAL THEN "#dev-urgent"
        ELSE IF v = NEEDS_REVIEW THEN "#dev-main"
        ELSE "#dev-feed"]

\* ------------------------------------------------------- str operations
LowerLetters ==
    <<"a", "b", "c", "d", "e", "f", "g", "h", "i", "j", "k", "l", "m",
      "n", "o", "p", "q", "r", "s", "t", "u", "v", "w", "x", "y", "z">>
UpperLetters ==
    <<"A", "B", "C", "D", "E", "F", "G", "H", "I", "J", "K", "L", "M",
      "N", "O", "P", "Q", "R", "S", "T", "U", "V", "W", "X", "Y", "Z">>
Whitespace == {" ", "\t", "\n", "\r"}

\* str.upper() on one character
UpperChar(c) ==
    IF \E i \in 1..26 : LowerLetters[i] = c
    THEN UpperLetters[CHOOSE i \in 1..26 : LowerLetters[i] = c]
    ELSE c

\* str.upper()
Upper(t) == [i \in 1..Len(t) |-> UpperChar(t[i])]

RECURSIVE LStrip(_)
LStrip(t) ==
    IF t # <<>> /\ Head(t) \in Whitespace THEN LStrip(Tail(t)) ELSE t

RECURSIVE RStrip(_)
RStrip(t) ==
    IF t # <<>> /\ t[Len(t)] \in Whitespace
    THEN RStrip(SubSeq(t, 1, Len(t) - 1))
    ELSE t

\* Mutation of Strip: only leading whitespace is removed (lstrip).
StripLeftOnly(t) == LStrip(t)

\* str.strip()
Strip(t) == RStrip(LStrip(t))

\* truth value of a Python str-or-None
TruthyStr(s) == s # None /\ s # ""
TruthyText(t) == t # NoneText /\ t # <<>>

Min(a, b) == IF a <= b THEN a ELSE b

RECURSIVE Pow2(_)
Pow2(n) == IF n = 0 THEN 1 ELSE 2 * Pow2(n - 1)

\* ------------------------------------------------- environment outcomes
\* Outcome of one HTTP GET: a response (status code, body and, for the
\* rate-limit case, the X-RateLimit-Reset header; 0 is the header's default
\* when it is absent), or a requests.exceptions.RequestException raised by
\* requests.get itself (connection error, timeout).
Bodies == {"", "diff --git a/x b/x"}
OkResponses == [kind : {"response"}, status : {200}, body : Bodies, reset : {0}]
ErrResponses ==
    [kind : {"response"}, status : {404, 500}, body : {""}, reset : {0}]
RateLimitResponses ==
    [kind : {"response"}, status : {429}, body : {""},
     reset : {0, Clock - 1, Clock + 4, Clock + 200}]
NetworkErrors == [kind : {"exception"}, status : {0}, body : {""}, reset : {0}]
HttpOutcomes == OkResponses \cup ErrResponses \cup RateLimitResponses \cup NetworkErrors

\* Outcome of model.generate_content(...) followed by reading .text:
\* an exception (with its str()), or a text, or no text.
FirstOutcomes ==
    {[kind |-> "raise", msg |-> "quota exceeded"],
     [kind |-> "raise", msg |-> ""],
     [kind |-> "text", text |-> None],
     [kind |-> "text", text |-> ""],
     [kind |-> "text", text |-> "The loop never terminates."]}

ClassificationTexts ==
    {NoneText,
     <<>>,
     <<" ", "\n">>,
     <<" ", " ", "c", "r", "i", "t", "i", "c", "a", "l", "\n">>,
     GOOD,
     <<"N", "e", "e", "d", "s", "_", "R", "e", "v", "i", "e", "w">>,
     <<"G", "O", "O", "D", ".">>,
     <<"O", "K">>}
SecondOutcomes ==
    {[kind |-> "raise", msg |-> "timeout"]}
    \cup [kind : {"text"}, text : ClassificationTexts]

\* Outcome of slack_client.chat_postMessage(...)
SlackOutcomes == {"ok", "SlackApiError", "Exception"}

\* ------------------------------------------------------ request inputs
\* request.json of a webhook delivery: accessing it raises (not JSON),
\* or it is null, {}, a non-empty JSON value that is not an object, or an
\* object.  In an object, action is absent (None) or a string, and
\* pull_request is absent, null, or an object whose URLs are absent (None),
\* empty or present.
Urls == {None, "", "https://github.com/o/r/pull/1"}
PullRequests ==
    {[kind |-> "absent"], [kind |-> "null"]}
    \cup [kind : {"object"}, diff_url : Urls, html_url : Urls]
Payloads ==
    {[kind |-> "raise"], [kind |-> "null"], [kind |-> "empty"], [kind |-> "list"]}
    \cup [kind : {"object"}, action : {None, "opened", "closed"},
          pull_request : PullRequests]
\* request.headers.get('X-GitHub-Event')
EventTypes == {None, "pull_request", "push"}

\* ------------------------------------------------------------- state
VARIABLES
    model,          \* Gemini model configured (GEMINI_API_KEY set)
    slack_client,   \* Slack client configured (SLACK_BOT_TOKEN set)
    GITHUB_TOKEN,   \* GitHub token configured
    pc,             \* position of the request being handled
    endpoint,       \* "webhook" or "analyze": the handler that is running
    req,            \* the request being handled, as received
    pr_ref,         \* (owner, repo, pr_number) of the direct-analyze request
    attempt,        \* loop variable of fetch_pr_diff
    diff_content,   \* the diff handed to analyze_with_ai
    result_text,    \* explanatory text of the first model call
    ai_result,      \* value returned by analyze_with_ai
    response,       \* the HTTP response of the handler
    log,            \* calls made and sleeps performed for this request
    served          \* requests received so far

vars ==
    <<model, slack_client, GITHUB_TOKEN, pc, endpoint, req, pr_ref, attempt,
      diff_content, result_text, ai_result, response, log, served>>

config == <<model, slack_client, GITHUB_TOKEN>>

NoRequest == [kind |-> "none"]
NoResponse == [http |-> 0]
NoResult == [kind |-> "none"]
NoRef == <<>>

Init ==
    /\ model \in BOOLEAN
    /\ slack_client \in BOOLEAN
    /\ GITHUB_TOKEN \in BOOLEAN
    /\ pc = "idle"
    /\ endpoint = "none"
    /\ req = NoRequest
    /\ pr_ref = NoRef
    /\ attempt = 0
    /\ diff_content = None
    /\ result_text = None
    /\ ai_result = NoResult
    /\ response = NoResponse
    /\ log = <<>>
    /\ served = 0

\* jsonify(body), http: the handler returns and the request is over.
Respond(http, body, lg) ==
    /\ response' = [http |-> http, body |-> body]
    /\ pc' = "idle"
    /\ log' = lg

\* Mutation of HandlerExcept: the webhook answers 500 from its except clause.
HandlerExceptAlways500(ep, msg, lg) ==
    IF ep = "webhook"
    THEN Respond(500, [status |-> "error", message |-> msg], lg)
    ELSE Respond(500, [ok |-> FALSE, code |-> "INTERNAL_ERROR", message |-> msg], lg)

\* The except clause that wraps the whole body of each handler:
\* github_webhook answers 200 with status "error", analyze_pr_endpoint
\* answers 500 with code INTERNAL_ERROR; both carry str(e).
HandlerExcept(ep, msg, lg) ==
    IF ep = "webhook"
    THEN Respond(200, [status |-> "error", message |-> msg], lg)
    ELSE Respond(500, [ok |-> FALSE, code |-> "INTERNAL_ERROR", message |-> msg], lg)

\* "if not ai_result": a dict is false only when it is empty (or None).
IsFalsyResult(res) == res = NoResult

\* ------------------------------------------------------- send_to_slack
\* channel = CHANNEL_MAPPING.get(verdict, '#dev-main')
SlackChannel(verdict) ==
    IF verdict \in DOMAIN CHANNEL_MAPPING THEN CHANNEL_MAPPING[verdict] ELSE "#dev-main"

\* the message prefix chosen by verdict
SlackPrefix(verdict) ==
    IF verdict = CRITICAL THEN "CRITICAL PR: <!here> AI found a critical issue. "
    ELSE IF verdict = NEEDS_REVIEW THEN "Review Needed: "
    ELSE "PR Approved: AI review passed. "

\* What send_to_slack returns for an outcome of chat_postMessage: True on
\* success, False from either except clause.
SlackSuccess(o) == o = "ok"

\* Mutation of WebhookResult: a failed notification fails the request.
WebhookResultNeedsSlack(verdict, slack_success) ==
    IF slack_success
    THEN [status |-> "success", verdict |-> verdict]
    ELSE [status |-> "error", message |-> "Slack notification failed"]

\* The body the webhook answers after send_to_slack returned slack_success:
\* a failed notification is only logged (lines 83-87).
WebhookResult(verdict, slack_success) == [status |-> "success", verdict |-> verdict]

\* github_webhook from the return of analyze_with_ai to the call of
\* chat_postMessage: without a Slack client send_to_slack returns False at
\* once, a warning is printed and the webhook still answers success.
WebhookAfterAi(res, lg) ==
    IF IsFalsyResult(res)
    THEN Respond(200, [status |-> "error", message |-> "AI analysis failed"], lg)
    ELSE IF ~slack_client
         THEN Respond(200, WebhookResult(res.verdict, FALSE), lg)
         ELSE /\ pc' = "send_to_slack"
              /\ log' = lg
              /\ response' = response

\* analyze_pr_endpoint from the return of analyze_with_ai to its response.
AnalyzeAfterAi(res, lg) ==
    IF IsFalsyResult(res)
    THEN Respond(500, [ok |-> FALSE, code |-> "AI_FAILED",
                       message |-> "AI analysis failed"], lg)
    ELSE Respond(200, [ok |-> TRUE, verdict |-> res.verdict,
                       comment |-> res.comment, pr_url |-> req.data.pr_url], lg)

\* analyze_with_ai returns res to the handler that called it.
ReturnAi(res, lg) ==
    /\ ai_result' = res
    /\ IF endpoint = "webhook" THEN WebhookAfterAi(res, lg) ELSE AnalyzeAfterAi(res, lg)

\* ----------------------------------------------------- analyze_with_ai
Placeholder ==
    [verdict |-> NEEDS_REVIEW,
     comment |-> "AI analysis unavailable - manual review required"]

ErrorResult(msg) ==
    [verdict |-> NEEDS_REVIEW,
     comment |-> "AI analysis error: " \o msg \o " - manual review required"]

\* Mutation of AiExcept: the except clause returns nothing.
AiExceptReturnsNone(msg, lg) == ReturnAi(NoResult, lg)

\* Mutation of AiExcept: the exception leaves analyze_with_ai and reaches
\* the except clause of the handler.
AiExceptReraise(msg, lg) ==
    /\ HandlerExcept(endpoint, msg, lg)
    /\ ai_result' = ai_result

\* except Exception as e: return {...}
AiExcept(msg, lg) == ReturnAi(ErrorResult(msg), lg)

\* result_text = response.text if response.text else "No response from AI"
FirstText(text) == IF TruthyStr(text) THEN text ELSE "No response from AI"

\* Mutation of ClassifyText: the membership test is missing.
ClassifyTextNoDefault(text) ==
    IF TruthyText(text) THEN Upper(Strip(text)) ELSE NEEDS_REVIEW

\* verdict = text.strip().upper() if text else "NEEDS_REVIEW", then the
\* membership test with its default.
ClassifyText(text) ==
    LET verdict == IF TruthyText(text) THEN Upper(Strip(text)) ELSE NEEDS_REVIEW
    IN  IF verdict \notin Canonical THEN NEEDS_REVIEW ELSE verdict

\* The handler calls analyze_with_ai(diff_content): without a model the
\* placeholder is returned at once, otherwise the first prompt is sent next.
CallAi(dc, lg) ==
    LET lg2 == Append(lg, [ev |-> "call", fn |-> "analyze_with_ai", arg |-> dc])
    IN  /\ diff_content' = dc
        /\ result_text' = None
        /\ IF ~model
           THEN ReturnAi(Placeholder, lg2)
           ELSE /\ pc' = "generate_first"
                /\ log' = lg2
                /\ ai_result' = NoResult
                /\ response' = response

\* response = model.generate_content([prompt, diff[:4000]]); response.text
generate_first(o) ==
    /\ pc = "generate_first"
    /\ LET lg == Append(log, [ev |-> "generate", pass |-> 1, outcome |-> o])
       IN  IF o.kind = "raise"
           THEN /\ AiExcept(o.msg, lg)
                /\ result_text' = result_text
           ELSE /\ result_text' = FirstText(o.text)
                /\ pc' = "generate_second"
                /\ log' = lg
                /\ UNCHANGED <<ai_result, response>>
    /\ UNCHANGED <<config, endpoint, req, pr_ref, attempt, diff_content, served>>

\* classification_response = model.generate_content([classification_prompt,
\* result_text]), normalisation and return
generate_second(o) ==
    /\ pc = "generate_second"
    /\ LET lg == Append(log, [ev |-> "generate", pass |-> 2, outcome |-> o])
       IN  IF o.kind = "raise"
           THEN AiExcept(o.msg, lg)
           ELSE ReturnAi([verdict |-> ClassifyText(o.text), comment |-> result_text], lg)
    /\ UNCHANGED <<config, endpoint, req, pr_ref, attempt, diff_content,
                   result_text, served>>

\* slack_client.chat_postMessage(channel, text): whatever it does (success,
\* SlackApiError, any other exception) send_to_slack returns a boolean and
\* the webhook answers success.
chat_postMessage(o) ==
    /\ pc = "send_to_slack"
    /\ LET verdict == ai_result.verdict
           lg == Append(log, [ev |-> "post", channel |-> SlackChannel(verdict),
                              text |-> SlackPrefix(verdict) \o ai_result.comment
                                       \o " " \o req.payload.pull_request.html_url,
                              outcome |-> o])
       IN  Respond(200, WebhookResult(verdict, SlackSuccess(o)), lg)
    /\ UNCHANGED <<config, endpoint, req, pr_ref, attempt, diff_content,
                   result_text, ai_result, served>>

\* ------------------------------------------------------ diff fetchers
\* response.raise_for_status() raises HTTPError for 4xx and 5xx only.
RaisesForStatus(status) == status >= 400 /\ status < 600

\* fetch_diff and fetch_pr_diff_fallback: one GET, raise_for_status, and
\* "except Exception: return None".
SingleGetResult(o) ==
    IF o.kind = "exception" \/ RaisesForStatus(o.status) THEN None ELSE o.body

\* A handler receives a request: the state of the previous one is gone.
NewRequest(ep, r) ==
    /\ pc = "idle"
    /\ served < MaxRequests
    /\ served' = served + 1
    /\ endpoint' = ep
    /\ req' = r
    /\ attempt' = 0
    /\ diff_content' = None
    /\ result_text' = None
    /\ ai_result' = NoResult
    /\ UNCHANGED config

\* ------------------------------------------------------ github_webhook
\* Mutation of IsOpened: closed pull requests are processed as well.
IsOpenedOrClosed(action) == action \in {"opened", "closed"}

\* "if action != 'opened'" decides that the event is ignored.
IsOpened(action) == action = "opened"

\* The handler up to its first outgoing call (lines 43-66).
WebhookDispatch(payload, event_type) ==
    IF payload.kind = "raise"
    THEN HandlerExcept("webhook", "415 Unsupported Media Type", <<>>)
    ELSE IF payload.kind \in {"null", "empty"}
    THEN Respond(200, [status |-> "error", message |-> "No payload"], <<>>)
    ELSE IF event_type # "pull_request"
    THEN Respond(200, [status |-> "ignored", reason |-> "Not a pull_request event"], <<>>)
    ELSE IF payload.kind = "list"
    THEN HandlerExcept("webhook", "'list' object has no attribute 'get'", <<>>)
    ELSE IF ~IsOpened(payload.action)
    THEN Respond(200, [status |-> "ignored",
                       reason |-> "Action is " \o payload.action \o ", not opened"], <<>>)
    ELSE IF payload.pull_request.kind = "null"
    THEN HandlerExcept("webhook", "'NoneType' object has no attribute 'get'", <<>>)
    ELSE IF \/ payload.pull_request.kind = "absent"
            \/ ~TruthyStr(payload.pull_request.diff_url)
            \/ ~TruthyStr(payload.pull_request.html_url)
    THEN Respond(200, [status |-> "error", message |-> "Missing required URLs"], <<>>)
    ELSE /\ pc' = "fetch_diff"
         /\ response' = NoResponse
         /\ log' = <<>>

github_webhook(payload, event_type) ==
    /\ NewRequest("webhook",
                  [kind |-> "webhook", payload |-> payload, event_type |-> event_type])
    /\ pr_ref' = NoRef
    /\ WebhookDispatch(payload, event_type)

\* diff_content = fetch_diff(diff_url) and the handler up to its next
\* outgoing call (lines 68-73).
fetch_diff(o) ==
    /\ pc = "fetch_diff"
    /\ LET lg == <<[ev |-> "get", src |-> "fetch_diff",
                    url |-> req.payload.pull_request.diff_url, outcome |-> o]>>
           dc == SingleGetResult(o)
       IN  IF ~TruthyStr(dc)
           THEN /\ Respond(200, [status |-> "error",
                                 message |-> "Failed to fetch diff"], log \o lg)
                /\ UNCHANGED <<diff_content, result_text, ai_result>>
           ELSE CallAi(dc, log \o lg)
    /\ UNCHANGED <<config, endpoint, req, pr_ref, attempt, served>>

\* ----------------------------------------------------- validate_pr_url
\* PR_URL_PATTERN = ^https://github\.com/([^/]+)/([^/]+)/pull/(\d+)(?:/.*)?$
UrlPrefix == <<"h", "t", "t", "p", "s", ":", "/", "/", "g", "i", "t", "h", "u", "b", ".", "c", "o", "m", "/">>
PullSegment == <<"/", "p", "u", "l", "l", "/">>
DigitChars == {"0", "1", "2", "3", "4", "5", "6", "7", "8", "9"}

StartsWith(t, p) == Len(t) >= Len(p) /\ SubSeq(t, 1, Len(p)) = p
Drop(t, n) == SubSeq(t, n + 1, Len(t))

\* length of the longest prefix of t made of characters outside notIn
RECURSIVE RunLen(_, _)
RunLen(t, notIn) ==
    IF t = <<>> \/ Head(t) \in notIn THEN 0 ELSE 1 + RunLen(Tail(t), notIn)

RECURSIVE DigitLen(_)
DigitLen(t) ==
    IF t = <<>> \/ Head(t) \notin DigitChars THEN 0 ELSE 1 + DigitLen(Tail(t))

\* Mutation of MatchesRest: the pattern ends right after the number, (\d+)$
MatchesRestNothing(t) == t = <<>> \/ t = <<"\n">>

\* (?:/.*)?$ : nothing, or "/" and characters other than newline; "$" also
\* matches just before one final newline.
MatchesRest(t) ==
    LET body == IF t # <<>> /\ t[Len(t)] = "\n" THEN SubSeq(t, 1, Len(t) - 1) ELSE t
    IN  \/ body = <<>>
        \/ /\ Head(body) = "/"
           /\ \A i \in 1..Len(body) : body[i] # "\n"

NoMatch == <<NoneText, NoneText, NoneText>>

\* What follows the host in PR_URL_PATTERN, matched against r1:
\* ([^/]+)/([^/]+)/pull/(\d+)(?:/.*)?$
MatchPath(r1) ==
    LET n1 == RunLen(r1, {"/"})
        owner == SubSeq(r1, 1, n1)
        r2 == Drop(r1, n1 + 1)
        n2 == RunLen(r2, {"/"})
        repo == SubSeq(r2, 1, n2)
        r3 == Drop(r2, n2)
        r4 == Drop(r3, Len(PullSegment))
        n4 == DigitLen(r4)
        number == SubSeq(r4, 1, n4)
    IN  IF /\ n1 >= 1
           /\ Len(r1) > n1
           /\ n2 >= 1
           /\ StartsWith(r3, PullSegment)
           /\ n4 >= 1
           /\ MatchesRest(Drop(r4, n4))
        THEN <<owner, repo, number>>
        ELSE NoMatch

SchemePrefix == <<"h", "t", "t", "p", "s", ":", "/", "/">>

\* Mutation of validate_pr_url: the pattern accepts any host,
\* ^https://[^/]+/([^/]+)/([^/]+)/pull/(\d+)(?:/.*)?$
validate_pr_url_any_host(pr_url) ==
    IF ~StartsWith(pr_url, SchemePrefix) THEN NoMatch
    ELSE
    LET r0 == Drop(pr_url, Len(SchemePrefix))
        n0 == RunLen(r0, {"/"})
    IN  IF n0 >= 1 /\ Len(r0) > n0 THEN MatchPath(Drop(r0, n0 + 1)) ELSE NoMatch

\* validate_pr_url(pr_url): the three groups, or (None, None, None)
validate_pr_url(pr_url) ==
    IF ~StartsWith(pr_url, UrlPrefix) THEN NoMatch
    ELSE MatchPath(Drop(pr_url, Len(UrlPrefix)))

\* request.json of a direct-analyze request: accessing it raises, or it is
\* null, {}, a non-object, or an object whose pr_url is absent, a string or
\* a number.
PrUrls ==
    {<<>>,
     <<"h", "t", "t", "p", "s", ":", "/", "/", "g", "i", "t", "h", "u", "b", ".", "c", "o", "m", "/", "o", "/", "r", "/", "p", "u", "l", "l", "/", "1", "2">>,
     <<"h", "t", "t", "p", "s", ":", "/", "/", "g", "i", "t", "h", "u", "b", ".", "c", "o", "m", "/", "a", "b", "/", "c", "/", "p", "u", "l", "l", "/", "7", "/", "c", "o", "m", "m", "i", "t", "s", "/", "a", "b", "c">>,
     <<"h", "t", "t", "p", "s", ":", "/", "/", "g", "i", "t", "h", "u", "b", ".", "c", "o", "m", "/", "o", "/", "r", "/", "i", "s", "s", "u", "e", "s", "/", "1", "2">>,
     <<"h", "t", "t", "p", "s", ":", "/", "/", "g", "i", "t", "l", "a", "b", ".", "c", "o", "m", "/", "o", "/", "r", "/", "p", "u", "l", "l", "/", "1", "2">>,
     <<"h", "t", "t", "p", "s", ":", "/", "/", "g", "i", "t", "h", "u", "b", ".", "c", "o", "m", "/", "o", "/", "r", "/", "p", "u", "l", "l", "/">>,
     <<"h", "t", "t", "p", "s", ":", "/", "/", "g", "i", "t", "h", "u", "b", ".", "c", "o", "m", "/", "o", "/", "r", "/", "p", "u", "l", "l", "/", "a", "b", "c">>,
     <<"g", "i", "t", "h", "u", "b", ".", "c", "o", "m", "/", "o", "/", "r", "/", "p", "u", "l", "l", "/", "1", "2">>,
     <<"h", "t", "t", "p", "s", ":", "/", "/", "g", "i", "t", "h", "u", "b", ".", "c", "o", "m", "/", "o", "/", "r", "/", "p", "u", "l", "l", "/", "1", "2", "x">>}
AnalyzeBodies ==
    {[kind |-> "raise"], [kind |-> "null"], [kind |-> "empty"], [kind |-> "list"],
     [kind |-> "object", pr_url_type |-> "absent", pr_url |-> NoneText],
     [kind |-> "object", pr_url_type |-> "int", pr_url |-> <<"7">>]}
    \cup [kind : {"object"}, pr_url_type : {"str"}, pr_url : PrUrls]

\* -------------------------------------------------------- fetch_pr_diff
\* Mutation of LastAttempt: the except clause gives up one attempt early.
LastAttemptEarly == MaxAttempts - 2

\* "if attempt == 2" in the except clause
LastAttempt == 2

SleepEvent(why, secs) == [ev |-> "sleep", why |-> why, secs |-> secs]

\* Mutation of WaitTime: the cap of 60 seconds is missing.
WaitTimeUncapped(reset_time, current_time) == reset_time - current_time + 1

\* wait_time = min(reset_time - current_time + 1, 60)
WaitTime(reset_time, current_time) == Min(reset_time - current_time + 1, MaxWait)

\* Mutation of BackoffSecs: the backoff grows linearly.
BackoffSecsLinear(att) == att + 1

\* Mutation of BackoffSecs: the exponent is one too large.
BackoffSecsDoubled(att) == Pow2(att + 1)

\* time.sleep(2 ** attempt)
BackoffSecs(att) == Pow2(att)

\* The rate-limit branch: sleep only "if wait_time > 0".
RateLimitSleeps(reset_time, current_time) ==
    IF WaitTime(reset_time, current_time) > 0
    THEN <<SleepEvent("rate_limit", WaitTime(reset_time, current_time))>>
    ELSE <<>>

\* One iteration of the retry loop on the outcome o of requests.get:
\* the sleeps the body of the loop performs and how it leaves the iteration
\* (continue with the next attempt, return response.text, or raise).
\* raise_for_status raises HTTPError, a RequestException, inside the try
\* block, so the except clause handles it like a network error.
PrimaryStep(att, o) ==
    IF o.kind = "response" /\ o.status = 429
    THEN [next |-> "continue", sleeps |-> RateLimitSleeps(o.reset, Clock), value |-> None]
    ELSE IF o.kind = "response" /\ o.status >= 500
    THEN [next |-> "continue", sleeps |-> <<SleepEvent("backoff", BackoffSecs(att))>>,
          value |-> None]
    ELSE IF o.kind = "response" /\ ~RaisesForStatus(o.status)
    THEN [next |-> "return", sleeps |-> <<>>, value |-> o.body]
    ELSE IF att = LastAttempt
    THEN [next |-> "raise", sleeps |-> <<>>, value |-> None]
    ELSE [next |-> "continue", sleeps |-> <<SleepEvent("backoff", BackoffSecs(att))>>,
          value |-> None]

\* Mutation of NextAttempt: a rate-limited request is not counted.
NextAttemptFreeRateLimit(att, o) ==
    IF o.kind = "response" /\ o.status = 429 THEN att ELSE att + 1

\* "for attempt in range(3)": every iteration, however it ends, moves on to
\* the next value of attempt.
NextAttempt(att, o) == att + 1

\* str(e) of the exception fetch_pr_diff re-raises
ExcMessage(o) == IF o.kind = "exception" THEN "ConnectionError" ELSE "HTTPError"

\* ------------------------------------------------- analyze_pr_endpoint
\* The handler up to its first outgoing call (lines 242-262).
AnalyzeDispatch(data) ==
    IF data.kind = "raise"
    THEN /\ HandlerExcept("analyze", "415 Unsupported Media Type", <<>>)
         /\ pr_ref' = NoRef
    ELSE IF data.kind \in {"null", "empty"}
    THEN /\ Respond(400, [ok |-> FALSE, code |-> "INVALID_JSON",
                          message |-> "Invalid JSON payload"], <<>>)
         /\ pr_ref' = NoRef
    ELSE IF data.kind = "list"
    THEN /\ HandlerExcept("analyze", "'list' object has no attribute 'get'", <<>>)
         /\ pr_ref' = NoRef
    ELSE IF data.pr_url_type = "absent" \/ data.pr_url = <<>>
    THEN /\ Respond(400, [ok |-> FALSE, code |-> "MISSING_URL",
                          message |-> "PR URL is required"], <<>>)
         /\ pr_ref' = NoRef
    ELSE IF data.pr_url_type # "str"
    THEN /\ HandlerExcept("analyze", "expected string or bytes-like object", <<>>)
         /\ pr_ref' = NoRef
    ELSE IF \E i \in 1..3 : ~TruthyText(validate_pr_url(data.pr_url)[i])
    THEN /\ Respond(400, [ok |-> FALSE, code |-> "INVALID_URL",
                          message |-> "Invalid GitHub PR URL format"], <<>>)
         /\ pr_ref' = NoRef
    ELSE IF ~GITHUB_TOKEN
    THEN /\ Respond(500, [ok |-> FALSE, code |-> "MISSING_TOKEN",
                          message |-> "GITHUB_TOKEN is not set."], <<>>)
         /\ pr_ref' = validate_pr_url(data.pr_url)
    ELSE /\ pc' = "fetch_pr_diff"
         /\ response' = NoResponse
         /\ log' = <<>>
         /\ pr_ref' = validate_pr_url(data.pr_url)

analyze_pr_endpoint(data) ==
    /\ NewRequest("analyze", [kind |-> "analyze", data |-> data])
    /\ AnalyzeDispatch(data)

\* Mutation of AfterPrimary: the diff is not tested before it is analysed.
AfterPrimaryUnchecked(value, lg) == CallAi(value, lg)

\* The endpoint after fetch_pr_diff returned value (lines 263-270).
AfterPrimary(value, lg) ==
    IF ~TruthyStr(value)
    THEN /\ pc' = "fetch_pr_diff_fallback"
         /\ log' = lg
         /\ UNCHANGED <<response, diff_content, result_text, ai_result>>
    ELSE CallAi(value, lg)

\* One iteration of the loop of fetch_pr_diff: requests.get and what
\* follows it, up to the next outgoing call.
primary_get(o) ==
    /\ pc = "fetch_pr_diff"
    /\ attempt < MaxAttempts
    /\ LET step == PrimaryStep(attempt, o)
           lg == log \o <<[ev |-> "get", src |-> "primary", ref |-> pr_ref,
                           attempt |-> attempt, outcome |-> o]>> \o step.sleeps
       IN  /\ attempt' = IF step.next = "continue" THEN NextAttempt(attempt, o) ELSE attempt
           /\ IF step.next = "raise"
              THEN /\ HandlerExcept("analyze", ExcMessage(o),
                        Append(lg, [ev |-> "raise", fn |-> "fetch_pr_diff"]))
                   /\ UNCHANGED <<diff_content, result_text, ai_result>>
              ELSE IF step.next = "return"
              THEN AfterPrimary(step.value,
                        Append(lg, [ev |-> "return", fn |-> "fetch_pr_diff",
                                    value |-> step.value]))
              ELSE IF NextAttempt(attempt, o) < MaxAttempts
              THEN /\ log' = lg
                   /\ UNCHANGED <<pc, response, diff_content, result_text, ai_result>>
              ELSE AfterPrimary(None,
                        Append(lg, [ev |-> "return", fn |-> "fetch_pr_diff",
                                    value |-> None]))
    /\ UNCHANGED <<config, endpoint, req, pr_ref, served>>

\* diff_content = fetch_pr_diff_fallback(owner, repo, pr_number) and the
\* endpoint up to its next outgoing call (lines 265-270).
fallback_get(o) ==
    /\ pc = "fetch_pr_diff_fallback"
    /\ LET lg == Append(log, [ev |-> "get", src |-> "fallback", ref |-> pr_ref,
                              outcome |-> o])
           dc == SingleGetResult(o)
       IN  IF ~TruthyStr(dc)
           THEN /\ Respond(500, [ok |-> FALSE, code |-> "FETCH_FAILED",
                                 message |-> "Failed to fetch PR diff."], lg)
                /\ UNCHANGED <<diff_content, result_text, ai_result>>
           ELSE CallAi(dc, lg)
    /\ UNCHANGED <<config, endpoint, req, pr_ref, attempt, served>>

WebhookNext ==
    \/ \E payload \in Payloads, event_type \in EventTypes :
          github_webhook(payload, event_type)
    \/ \E o \in HttpOutcomes : fetch_diff(o)
    \/ \E o \in SlackOutcomes : chat_postMessage(o)

AnalyzeNext ==
    \/ \E data \in AnalyzeBodies : analyze_pr_endpoint(data)
    \/ \E o \in HttpOutcomes : primary_get(o)
    \/ \E o \in HttpOutcomes : fallback_get(o)

AiNext ==
    \/ \E o \in FirstOutcomes : generate_first(o)
    \/ \E o \in SecondOutcomes : generate_second(o)

Next == WebhookNext \/ AnalyzeNext \/ AiNext

Spec == Init /\ [][Next]_vars

\* Every outgoing call comes back: requests.get has a timeout, time.sleep is
\* finite, and the model and Slack clients return or raise.
OutgoingCalls ==
    \/ \E o \in HttpOutcomes : fetch_diff(o) \/ primary_get(o) \/ fallback_get(o)
    \/ \E o \in FirstOutcomes : generate_first(o)
    \/ \E o \in SecondOutcomes : generate_second(o)
    \/ \E o \in SlackOutcomes : chat_postMessage(o)

FairSpec == Spec /\ WF_vars(OutgoingCalls)

\* ===================================================== properties
\* A request has been answered.
Finished == pc = "idle" /\ response # NoResponse

\* analyze_with_ai was called for the current request / has returned.
AiCalled == \E i \in DOMAIN log : log[i].ev = "call"
InAi == pc \in {"generate_first", "generate_second"}
AiReturned == AiCalled /\ ~InAi

IsGenerate(e) == e.ev = "generate"
IsGet(e, src) == e.ev = "get" /\ e.src = src
IsSleep(e) == e.ev = "sleep"
IsPost(e) == e.ev = "post"

\* C1: whatever the two model calls do, the result analyze_with_ai returns
\* has a verdict among CRITICAL, NEEDS_REVIEW, GOOD and a non-empty comment.
C1_ResultWellFormed ==
    AiReturned =>
        /\ ai_result # NoResult
        /\ ai_result.verdict \in {CRITICAL, NEEDS_REVIEW, GOOD}
        /\ ai_result.comment # None
        /\ Len(ai_result.comment) > 0

\* The second call answered "OK", which is no verdict; NEEDS_REVIEW came back.
C1_Witness ==
    /\ AiReturned
    /\ \E i \in DOMAIN log :
          /\ IsGenerate(log[i])
          /\ log[i].pass = 2
          /\ log[i].outcome = [kind |-> "text", text |-> <<"O", "K">>]
    /\ ai_result.verdict = NEEDS_REVIEW

\* C2: analyze_with_ai never lets an error reach its caller: a raising model
\* call gives NEEDS_REVIEW with the error in the comment, a missing model
\* gives the placeholder without any model call, and the handler never
\* answers from its own except clause once the classifier has been called.
C2_NeverRaises ==
    AiReturned =>
        /\ ai_result # NoResult
        /\ \A i \in DOMAIN log :
              (IsGenerate(log[i]) /\ log[i].outcome.kind = "raise") =>
                  /\ ai_result.verdict = NEEDS_REVIEW
                  /\ ai_result.comment =
                        "AI analysis error: " \o log[i].outcome.msg
                            \o " - manual review required"
        /\ ~model =>
              /\ ai_result.verdict = NEEDS_REVIEW
              /\ ai_result.comment = "AI analysis unavailable - manual review required"
              /\ \A i \in DOMAIN log : ~IsGenerate(log[i])
        /\ Finished =>
              IF endpoint = "webhook"
              THEN response.body.status = "success"
              ELSE response.body.ok

\* The second model call raised and the request was answered all the same.
C2_Witness ==
    /\ Finished
    /\ AiReturned
    /\ \E i \in DOMAIN log :
          IsGenerate(log[i]) /\ log[i].pass = 2 /\ log[i].outcome.kind = "raise"
    /\ ai_result.verdict = NEEDS_REVIEW

\* ---------------------------------------------------------------------
PrimaryGets == {i \in DOMAIN log : IsGet(log[i], "primary")}
FallbackGets == {i \in DOMAIN log : IsGet(log[i], "fallback")}

\* fetch_pr_diff has ended at position i of the log, by a return or a raise.
IsPrimaryEnd(e) == e.ev \in {"return", "raise"} /\ e.fn = "fetch_pr_diff"
\* ... without a diff: it raised, or returned None or an empty body.
IsPrimaryNoDiff(e) ==
    /\ IsPrimaryEnd(e)
    /\ e.ev = "return" => ~TruthyStr(e.value)

\* the outcome of a GET is one of the failures the retry loop is meant for
Retryable(o) == o.kind = "exception" \/ o.status = 429 \/ o.status >= 500

FetchFailedAnswer ==
    /\ ~response.body.ok
    /\ response.body.code = "FETCH_FAILED"

\* C3: in the direct-analyze endpoint the fallback is only tried after the
\* primary fetch has ended; it is tried next whenever the primary fetch ended
\* without a diff (exhausted, raised, or empty body); the answer is
\* FETCH_FAILED exactly when neither strategy produced a diff, and then the
\* classifier is not called.
C3_FallbackAfterEveryPrimaryFailure ==
    (endpoint = "analyze" /\ Finished /\ log # <<>>) =>
        /\ \A i \in FallbackGets : \E j \in 1..(i - 1) : IsPrimaryEnd(log[j])
        /\ \A i \in DOMAIN log :
              IsPrimaryNoDiff(log[i]) =>
                  /\ i < Len(log)
                  /\ IsGet(log[i + 1], "fallback")
        /\ FetchFailedAnswer <=>
              /\ \E i \in DOMAIN log : IsPrimaryNoDiff(log[i])
              /\ \A i \in FallbackGets : ~TruthyStr(SingleGetResult(log[i].outcome))
        /\ FetchFailedAnswer => ~AiCalled

\* C4: when the three primary attempts all fail (429, 5xx or network
\* exception, in any mix) the fallback is asked, and if it returns a
\* non-empty diff the classifier gets that diff and the answer is a success.
C4_FallbackRescuesExhaustedPrimary ==
    (/\ endpoint = "analyze"
     /\ Finished
     /\ Cardinality({i \in PrimaryGets : Retryable(log[i].outcome)}) = 3) =>
        \E i \in FallbackGets :
            TruthyStr(SingleGetResult(log[i].outcome)) =>
                /\ response.body.ok
                /\ \E j \in DOMAIN log :
                      log[j].ev = "call" /\ log[j].arg = log[i].outcome.body

\* C5: one call of fetch_pr_diff sends at most 3 requests, whatever the
\* primary source answers (a 429 included), and it always ends, by a return
\* or by a raise.
C5_AtMostThreeRequests ==
    /\ [](/\ Cardinality(PrimaryGets) <= 3
          /\ (PrimaryGets # {} /\ pc # "fetch_pr_diff") =>
                \E i \in DOMAIN log : IsPrimaryEnd(log[i]))
    /\ (pc = "fetch_pr_diff") ~> (pc # "fetch_pr_diff")

\* Three rate-limited requests in a row, and fetch_pr_diff has returned.
C5_Witness ==
    /\ Cardinality({i \in PrimaryGets : log[i].outcome.status = 429}) = 3
    /\ pc # "fetch_pr_diff"
    /\ \E i \in DOMAIN log : IsPrimaryEnd(log[i])

\* ---------------------------------------------------------------------
IsPrimaryGet(e) == IsGet(e, "primary")
\* the requests fetch_pr_diff has sent, in order
PrimaryGetSeq == SelectSeq(log, IsPrimaryGet)

Is2xx(o) == o.kind = "response" /\ o.status >= 200 /\ o.status <= 299

\* If the last request was answered 2xx and all requests before it failed
\* with 429, 5xx or a network exception, fetch_pr_diff returned the body of
\* that last answer.
ReturnsBodyOf2xx ==
    LET g == PrimaryGetSeq
    IN  (/\ g # <<>>
         /\ Is2xx(g[Len(g)].outcome)
         /\ \A k \in 1..(Len(g) - 1) : Retryable(g[k].outcome)) =>
            \E i \in DOMAIN log :
                /\ log[i].ev = "return"
                /\ log[i].fn = "fetch_pr_diff"
                /\ log[i].value = g[Len(g)].outcome.body

\* the primary source answered 429, 500, 200 in this order
Answers429_500_200 ==
    LET g == PrimaryGetSeq
    IN  /\ Len(g) = 3
        /\ g[1].outcome.status = 429
        /\ g[2].outcome.status = 500
        /\ g[3].outcome.status = 200

\* C6 as stated: a 2xx after retryable failures returns that body, and for
\* 429, 500, 200 the log of fetch_pr_diff is: request, rate-limit wait,
\* request, backoff wait, request, return of the 200 body.
C6_WaitsThenReturnsBody ==
    /\ ReturnsBodyOf2xx
    /\ Answers429_500_200 =>
          /\ Len(log) >= 6
          /\ IsPrimaryGet(log[1])
          /\ IsSleep(log[2]) /\ log[2].why = "rate_limit"
          /\ IsPrimaryGet(log[3])
          /\ IsSleep(log[4]) /\ log[4].why = "backoff"
          /\ IsPrimaryGet(log[5])
          /\ log[6] = [ev |-> "return", fn |-> "fetch_pr_diff",
                       value |-> log[5].outcome.body]

\* C6 amended: as above, but the rate-limit wait of min(reset - now + 1, 60)
\* seconds is performed only when that number is positive; otherwise the
\* second request follows the 429 directly.  The backoff wait is 2 seconds.
C6_WaitsWhenPositiveThenReturnsBody ==
    /\ ReturnsBodyOf2xx
    /\ Answers429_500_200 =>
          LET g == PrimaryGetSeq
              w == Min(g[1].outcome.reset - Clock + 1, 60)
              waits == IF w > 0
                       THEN <<[ev |-> "sleep", why |-> "rate_limit", secs |-> w]>>
                       ELSE <<>>
              expected ==
                  <<g[1]>> \o waits
                  \o <<g[2], [ev |-> "sleep", why |-> "backoff", secs |-> 2], g[3],
                       [ev |-> "return", fn |-> "fetch_pr_diff",
                        value |-> g[3].outcome.body]>>
          IN  /\ Len(log) >= Len(expected)
              /\ SubSeq(log, 1, Len(expected)) = expected
              /\ w <= 60

\* 429 with a reset time 4 seconds ahead, then 500, then 200 with a diff:
\* 5 seconds of rate-limit wait, 2 of backoff, the diff returned.
C6_Witness ==
    /\ Answers429_500_200
    /\ Len(log) >= 6
    /\ log[2] = [ev |-> "sleep", why |-> "rate_limit", secs |-> 5]
    /\ log[4] = [ev |-> "sleep", why |-> "backoff", secs |-> 2]
    /\ log[6].ev = "return"
    /\ log[6].value = "diff --git a/x b/x"

\* C7: a 4xx answer other than 429 makes fetch_pr_diff raise on that very
\* attempt: the next thing after the request is the raise, with no sleep and
\* no further request.
C7_ClientErrorRaisesAtOnce ==
    \A i \in PrimaryGets :
        (/\ log[i].outcome.kind = "response"
         /\ ~Is2xx(log[i].outcome)
         /\ log[i].outcome.status # 429
         /\ log[i].outcome.status < 500) =>
            /\ Len(log) > i
            /\ log[i + 1].ev = "raise"
            /\ \A j \in (i + 1)..Len(log) : ~IsSleep(log[j]) /\ ~IsPrimaryGet(log[j])

\* C8: every answer of the webhook is HTTP 200 with status success,
\* ignored or error.
C8_WebhookAlways200 ==
    (endpoint = "webhook" /\ Finished) =>
        /\ response.http = 200
        /\ response.body.status \in {"success", "ignored", "error"}

\* A pull_request delivery whose JSON is a list: payload.get raises inside
\* the handler, which answers from its except clause.
C8_Witness ==
    /\ endpoint = "webhook"
    /\ Finished
    /\ req.payload.kind = "list"
    /\ req.event_type = "pull_request"
    /\ response.body.status = "error"

\* the calls C9 excludes: no diff fetch, no classifier call, no Slack post
NoOutgoingCall == log = <<>>

\* C9 as stated: a delivery whose JSON could be read and that is not a
\* pull_request event, or whose action is not opened (a null or empty
\* payload included), is answered 200 with status ignored and causes no
\* outgoing call.
C9_OthersIgnored ==
    (/\ endpoint = "webhook"
     /\ Finished
     /\ req.payload.kind # "raise"
     /\ \/ req.event_type # "pull_request"
        \/ req.payload.kind # "object"
        \/ req.payload.action # "opened") =>
        /\ response.http = 200
        /\ response.body.status = "ignored"
        /\ NoOutgoingCall

\* C9 amended: with a non-empty payload, a delivery that is not a
\* pull_request event, and a JSON object whose action is not opened, are
\* answered 200 with status ignored; a null or empty payload is answered 200
\* with status error.  None of them causes an outgoing call.
C9_NonEmptyOthersIgnored ==
    (endpoint = "webhook" /\ Finished) =>
        /\ (\/ /\ req.payload.kind \in {"list", "object"}
               /\ req.event_type # "pull_request"
            \/ /\ req.payload.kind = "object"
               /\ req.payload.action # "opened") =>
              /\ response.http = 200
              /\ response.body.status = "ignored"
              /\ NoOutgoingCall
        /\ req.payload.kind \in {"null", "empty"} =>
              /\ response.http = 200
              /\ response.body.status = "error"
              /\ NoOutgoingCall

\* A pull_request event with action closed has been ignored.
C9_Witness ==
    /\ endpoint = "webhook"
    /\ Finished
    /\ req.event_type = "pull_request"
    /\ req.payload.kind = "object"
    /\ req.payload.action = "closed"
    /\ response.body.status = "ignored"

\* the delivery is an opened pull request with both URLs, and the diff was
\* fetched
OpenedWithDiff ==
    /\ endpoint = "webhook"
    /\ req.event_type = "pull_request"
    /\ req.payload.kind = "object"
    /\ req.payload.action = "opened"
    /\ req.payload.pull_request.kind = "object"
    /\ req.payload.pull_request.diff_url \notin {None, ""}
    /\ req.payload.pull_request.html_url \notin {None, ""}
    /\ \E i \in DOMAIN log :
          /\ IsGet(log[i], "fetch_diff")
          /\ log[i].outcome.kind = "response"
          /\ log[i].outcome.status = 200
          /\ log[i].outcome.body # ""

\* C10: an opened pull request with both URLs and a non-empty diff is
\* answered status success with a canonical verdict, whatever the model and
\* Slack do.
C10_OpenedSucceeds ==
    (Finished /\ OpenedWithDiff) =>
        /\ response.http = 200
        /\ response.body.status = "success"
        /\ response.body.verdict \in {CRITICAL, NEEDS_REVIEW, GOOD}

\* The model raised and Slack refused the message; the answer is success.
C10_Witness ==
    /\ Finished
    /\ OpenedWithDiff
    /\ \E i \in DOMAIN log : IsGenerate(log[i]) /\ log[i].outcome.kind = "raise"
    /\ \E i \in DOMAIN log : IsPost(log[i]) /\ log[i].outcome = "SlackApiError"
    /\ response.body.status = "success"

\* ---------------------------------------------------------------------
\* The segments of a text between its "/" characters.
RECURSIVE SplitSlash(_, _)
SplitSlash(t, cur) ==
    IF t = <<>> THEN <<cur>>
    ELSE IF Head(t) = "/" THEN <<cur>> \o SplitSlash(Tail(t), <<>>)
    ELSE SplitSlash(Tail(t), Append(cur, Head(t)))
Segments(t) == SplitSlash(t, <<>>)

\* https://github.com/{owner}/{repo}/pull/{number}[/...] with non-empty
\* owner, repo and number, read segment by segment.
HasPrShape(url) ==
    LET g == Segments(url)
    IN  /\ Len(g) >= 7
        /\ g[1] = <<"h", "t", "t", "p", "s", ":">>
        /\ g[2] = <<>>
        /\ g[3] = <<"g", "i", "t", "h", "u", "b", ".", "c", "o", "m">>
        /\ g[4] # <<>>
        /\ g[5] # <<>>
        /\ g[6] = <<"p", "u", "l", "l">>
        /\ g[7] # <<>>

\* ... whose number is made of decimal digits
HasNumericPrShape(url) ==
    /\ HasPrShape(url)
    /\ LET number == Segments(url)[7]
       IN  \A i \in DOMAIN number :
              number[i] \in {"0", "1", "2", "3", "4", "5", "6", "7", "8", "9"}
    /\ \A i \in DOMAIN url : url[i] \notin {"\n", "\r"}

\* the direct-analyze request carries a non-empty string as pr_url
HasUrlString ==
    /\ endpoint = "analyze"
    /\ req.data.kind = "object"
    /\ req.data.pr_url_type = "str"
    /\ req.data.pr_url # <<>>

ErrorCode(code) == ~response.body.ok /\ response.body.code = code

\* C11: a pr_url that does not have the shape of a PR URL (wrong host, wrong
\* path segment, missing number, missing scheme) is answered INVALID_URL with
\* HTTP 400, and no diff request and no classifier call is made for it.
C11_InvalidUrlNoFetch ==
    (HasUrlString /\ Finished /\ ~HasPrShape(req.data.pr_url)) =>
        /\ response.http = 400
        /\ ErrorCode("INVALID_URL")
        /\ log = <<>>

\* A gitlab.com URL was refused although the GitHub token is configured.
C11_Witness ==
    /\ HasUrlString
    /\ Finished
    /\ GITHUB_TOKEN
    /\ req.data.pr_url = <<"h", "t", "t", "p", "s", ":", "/", "/", "g", "i", "t", "l", "a", "b", ".", "c", "o", "m", "/", "o", "/", "r", "/", "p", "u", "l", "l", "/", "1", "2">>
    /\ ErrorCode("INVALID_URL")
    /\ log = <<>>

\* C12: for a URL https://github.com/{owner}/{repo}/pull/{number} with or
\* without further path segments, validate_pr_url gives exactly owner, repo
\* and number; what follows the number changes none of them.
C12_ExtractsOwnerRepoNumber ==
    (HasUrlString /\ HasNumericPrShape(req.data.pr_url)) =>
        /\ LET g == Segments(req.data.pr_url)
           IN  pr_ref = <<g[4], g[5], g[7]>>
        /\ Finished => ~ErrorCode("INVALID_URL")

\* .../ab/c/pull/7/commits/abc gave ("ab", "c", "7").
C12_Witness ==
    /\ HasUrlString
    /\ req.data.pr_url = <<"h", "t", "t", "p", "s", ":", "/", "/", "g", "i", "t", "h", "u", "b", ".", "c", "o", "m", "/", "a", "b", "/", "c", "/", "p", "u", "l", "l", "/", "7", "/", "c", "o", "m", "m", "i", "t", "s", "/", "a", "b", "c">>
    /\ pr_ref = <<<<"a", "b">>, <<"c">>, <<"7">>>>

\* C13: the number is an opaque token: https://github.com/o/r/pull/abc is
\* accepted and gives number "abc".
C13_NonDigitNumberAccepted ==
    (/\ HasUrlString
     /\ req.data.pr_url = <<"h", "t", "t", "p", "s", ":", "/", "/", "g", "i", "t", "h", "u", "b", ".", "c", "o", "m", "/", "o", "/", "r", "/", "p", "u", "l", "l", "/", "a", "b", "c">>) =>
        /\ pr_ref = <<<<"o">>, <<"r">>, <<"a", "b", "c">>>>
        /\ Finished => ~ErrorCode("INVALID_URL")

\* ---------------------------------------------------------------------
\* c is the letter C in either case (or the same non-letter character)
SameLetter(c, C) ==
    \/ c = C
    \/ \E i \in 1..26 : LowerLetters[i] = c /\ UpperLetters[i] = C

\* t is the word v, in any case, with nothing but whitespace around it
SaysWord(t, v) ==
    \E i \in 1..Len(t) :
        LET j == i + Len(v) - 1
        IN  /\ j <= Len(t)
            /\ \A k \in 1..(i - 1) : t[k] \in {" ", "\t", "\n", "\r"}
            /\ \A k \in (j + 1)..Len(t) : t[k] \in {" ", "\t", "\n", "\r"}
            /\ \A k \in 1..Len(v) : SameLetter(t[i + k - 1], v[k])

\* the verdict the second response stands for
VerdictOf(t) ==
    IF t = NoneText THEN NEEDS_REVIEW
    ELSE IF SaysWord(t, CRITICAL) THEN CRITICAL
    ELSE IF SaysWord(t, GOOD) THEN GOOD
    ELSE NEEDS_REVIEW

C15_MissingCredentialIsError ==
    /\ (/\ HasUrlString
        /\ HasNumericPrShape(req.data.pr_url)
        /\ Finished
        /\ ~GITHUB_TOKEN \/ ~model) =>
            /\ response.http >= 500
            /\ ~response.body.ok
    /\ (Finished /\ OpenedWithDiff /\ ~model) =>
            /\ response.body.status = "success"
            /\ response.body.verdict = NEEDS_REVIEW

\* fetch_pr_diff is no longer waiting to send a request
PrimaryLoopLeft == pc # "fetch_pr_diff"

\* 2 ** attempt for the three attempts
ExpectedBackoff(att) == IF att = 0 THEN 1 ELSE IF att = 1 THEN 2 ELSE 4

Is5xx(o) == o.kind = "response" /\ o.status >= 500

\* the entry after position i is the backoff sleep of the request at i
BackoffFollows(i) ==
    /\ Len(log) > i
    /\ log[i + 1] = [ev |-> "sleep", why |-> "backoff",
                     secs |-> ExpectedBackoff(log[i].attempt)]

\* after the sleep at position k the next request is sent (or is about to be)
RequestFollows(k) ==
    IF Len(log) > k THEN IsPrimaryGet(log[k + 1]) ELSE ~PrimaryLoopLeft

\* C16 as stated: every 5xx answer is followed by a sleep of 2^attempt
\* seconds (1, 2, 4) and then by a retry, and no sleep is performed without
\* a request after it.
C16_BackoffThenRetry ==
    /\ \A i \in PrimaryGets :
          Is5xx(log[i].outcome) => BackoffFollows(i) /\ RequestFollows(i + 1)
    /\ \A k \in DOMAIN log :
          (IsSleep(log[k]) /\ endpoint = "analyze") => RequestFollows(k)

\* C16 amended: every 5xx answer is followed by a sleep of 2^attempt seconds
\* (1, 2, 4); after the first and the second attempt the retry follows, after
\* the third attempt the sleep is followed by the return of no result.  A
\* sleep on the first or second attempt always has a request after it.
C16_BackoffThenRetryOrGiveUp ==
    /\ \A i \in PrimaryGets :
          Is5xx(log[i].outcome) =>
              /\ BackoffFollows(i)
              /\ IF log[i].attempt < 2
                 THEN RequestFollows(i + 1)
                 ELSE /\ Len(log) >= i + 2
                      /\ log[i + 2] = [ev |-> "return", fn |-> "fetch_pr_diff",
                                       value |-> None]
    /\ \A k \in DOMAIN log :
          (/\ IsSleep(log[k])
           /\ k > 1
           /\ IsPrimaryGet(log[k - 1])
           /\ log[k - 1].attempt < 2) => RequestFollows(k)

\* Three 500 answers: sleeps of 1, 2 and 4 seconds, then no result.
C16_Witness ==
    /\ Len(log) >= 7
    /\ \A i \in {1, 3, 5} : IsPrimaryGet(log[i]) /\ log[i].outcome.status = 500
    /\ log[2].secs = 1
    /\ log[4].secs = 2
    /\ log[6].secs = 4
    /\ log[7].ev = "return"

\* C17: a network exception on the first or second attempt is followed by a
\* sleep of 2^attempt seconds and another request; on the third attempt it
\* is raised to the caller without a sleep; nothing is raised to the caller
\* before the third attempt.
C17_NetworkErrorRetriedThenRaised ==
    /\ \A i \in PrimaryGets :
          log[i].outcome.kind = "exception" =>
              IF log[i].attempt < 2
              THEN /\ BackoffFollows(i)
                   /\ RequestFollows(i + 1)
                   /\ Len(log) >= i + 2 => log[i + 2].attempt = log[i].attempt + 1
              ELSE /\ Len(log) = i + 1
                   /\ log[i + 1] = [ev |-> "raise", fn |-> "fetch_pr_diff"]
                   /\ Finished
                   /\ ErrorCode("INTERNAL_ERROR")
    /\ \A k \in DOMAIN log :
          log[k].ev = "raise" =>
              /\ k > 1
              /\ IsPrimaryGet(log[k - 1])
              /\ log[k - 1].attempt = 2

\* Three network exceptions: sleeps of 1 and 2 seconds, then the raise.
C17_Witness ==
    /\ Len(log) = 6
    /\ \A i \in {1, 3, 5} : IsPrimaryGet(log[i]) /\ log[i].outcome.kind = "exception"
    /\ log[2].secs = 1
    /\ log[4].secs = 2
    /\ log[6].ev = "raise"

\* ---------------------------------------------------------------------
\* min(reset_time - now + 1, 60) for the 429 answer at position i
ExpectedWait(i) ==
    IF log[i].outcome.reset - Clock + 1 <= 60
    THEN log[i].outcome.reset - Clock + 1
    ELSE 60

IsCall(e) == e.ev = "call"
IsAnyGet(e) == e.ev = "get"

\* C19: within a request the order is fetch, classify, notify: the
\* classifier is called once at most, with a non-empty diff that a request
\* before it returned; Slack is posted to only by the webhook, once at most,
\* after the classifier has returned; the direct-analyze path never posts.
C19_FetchClassifyNotify ==
    /\ \A c \in DOMAIN log :
          IsCall(log[c]) =>
              /\ log[c].arg \notin {None, ""}
              /\ \E g \in 1..(c - 1) :
                    /\ IsAnyGet(log[g])
                    /\ log[g].outcome.kind = "response"
                    /\ log[g].outcome.body = log[c].arg
              /\ \A j \in (c + 1)..Len(log) : ~IsAnyGet(log[j]) /\ ~IsCall(log[j])
    /\ \A g \in DOMAIN log :
          IsGenerate(log[g]) => \E c \in 1..(g - 1) : IsCall(log[c])
    /\ \A p \in DOMAIN log :
          IsPost(log[p]) =>
              /\ endpoint = "webhook"
              /\ p = Len(log)
              /\ \E c \in 1..(p - 1) : IsCall(log[c])
              /\ ai_result # NoResult
              /\ \A j \in DOMAIN log : IsPost(log[j]) => j = p
    /\ endpoint = "analyze" => \A p \in DOMAIN log : ~IsPost(log[p])

\* A webhook request went through fetch, classifier call, two model calls
\* and the Slack post, in this order.
C19_Witness ==
    /\ endpoint = "webhook"
    /\ Finished
    /\ Len(log) = 5
    /\ IsGet(log[1], "fetch_diff")
    /\ IsCall(log[2])
    /\ IsGenerate(log[3])
    /\ IsGenerate(log[4])
    /\ IsPost(log[5])

\* C20: no request is answered with the AI-failure outcome: the
\* direct-analyze endpoint never answers AI_FAILED and the webhook never
\* answers "AI analysis failed".
C20_AiFailedUnreachable ==
    Finished =>
        IF endpoint = "analyze"
        THEN ~ErrorCode("AI_FAILED")
        ELSE ~(/\ response.body.status = "error"
               /\ response.body.message = "AI analysis failed")

\* The direct-analyze endpoint answered a success although a model call had
\* raised.
C20_Witness ==
    /\ Finished
    /\ endpoint = "analyze"
    /\ \E i \in DOMAIN log : IsGenerate(log[i]) /\ log[i].outcome.kind = "raise"
    /\ response.body.ok
    /\ response.body.verdict = NEEDS_REVIEW

====
